---- MODULE Spec2Model ----
(***************************************************************************)
(* A model of the edutech course catalog: of the backend, the in-memory    *)
(* users and courses arrays (storage.ts), the JWT guard and the course     *)
(* validator (middleware.ts) and the REST handlers (routes.ts); of the     *)
(* frontend, the filtered and sorted course list (CourseList.tsx), the     *)
(* session kept by the AuthProvider and the ApiClient, and the redirects   *)
(* of the pages.                                                           *)
(*                                                                         *)
(* Representation.                                                         *)
(*  - A JSON / JavaScript value is a tagged record, so that `typeof` and   *)
(*    `===` can be computed: Str("a"), Num(3, 2) (the number 3/2),         *)
(*    Bool(TRUE), Null, Undefined, DateAt(t).                              *)
(*  - An object (request body, course, user) is a function from its own    *)
(*    property names to values; a property that is absent is not in the    *)
(*    DOMAIN and reads as Undefined.                                       *)
(*  - The clock `now` counts ticks of Date.now(); TicksPerSecond ticks     *)
(*    make one second of the JWT NumericDate clock.                        *)
(*  - An Authorization header is the list of the pieces that               *)
(*    split(' ') returns for it; NoHeader is the absent header.            *)
(***************************************************************************)
EXTENDS Integers, Sequences, FiniteSets

VARIABLES
    users,      \* storage.ts `users`: the array of user records
    courses,    \* storage.ts `courses`: the array of course records
    now,        \* the server clock, Date.now()
    sessions,   \* what the client holds of its last login, if it holds one:
                \* the token, the user, the time of the login response, and
                \* whether a logout has been answered for the token since
    req,        \* the request handled last
    res,        \* the response sent to it
    courseList, \* the state of the CourseList component of the frontend: the
                \* courses it fetched, its filter criteria and its sort spec
    browser     \* the browser the frontend runs in: localStorage, the token
                \* of the ApiClient, `user` and `isLoading` of the AuthProvider
                \* and the path of the page shown

vars == <<users, courses, now, sessions, req, res, courseList, browser>>

----------------------------------------------------------------------------
(* Bounds of the model *)

\* ticks of Date.now() per second of the JWT clock (1000 in the program)
TicksPerSecond == 2
\* lifetime of a token in seconds of the JWT clock ('24h' in the program)
ExpiresIn == 1
\* Date.now() when the process starts; larger than every seeded id
StartTime == 10
\* how many ticks after StartTime the clock is followed
MaxTime == 2
\* how many courses are created on top of the seeded ones
MaxCreated == 1

----------------------------------------------------------------------------
(* JavaScript values *)

Undefined == [type |-> "undefined"]
Null == [type |-> "null"]
Str(s) == [type |-> "string", str |-> s]
Num(n, d) == [type |-> "number", num |-> n, den |-> d]
Int1(n) == Num(n, 1)
Bool(b) == [type |-> "boolean", bool |-> b]
DateAt(t) == [type |-> "date", ms |-> t]

\* typeof v
TypeOf(v) ==
    IF v.type \in {"null", "date"} THEN "object" ELSE v.type

\* !v
Falsy(v) ==
    \/ v.type \in {"undefined", "null"}
    \/ v.type = "string" /\ v.str = ""
    \/ v.type = "number" /\ v.num = 0
    \/ v.type = "boolean" /\ ~v.bool

\* obj.k, Undefined when the object has no such property
Get(obj, k) == IF k \in DOMAIN obj THEN obj[k] ELSE Undefined

\* { ...a, ...b }
Spread(a, b) ==
    [k \in (DOMAIN a) \cup (DOMAIN b) |-> IF k \in DOMAIN b THEN b[k] ELSE a[k]]

\* The characters String.prototype.trim removes (those the model uses)
WhiteSpace == {" ", "\t", "\n"}

RECURSIVE TrimStart(_)
TrimStart(s) ==
    IF Len(s) > 0 /\ SubSeq(s, 1, 1) \in WhiteSpace
    THEN TrimStart(SubSeq(s, 2, Len(s)))
    ELSE s

RECURSIVE TrimEnd(_)
TrimEnd(s) ==
    IF Len(s) > 0 /\ SubSeq(s, Len(s), Len(s)) \in WhiteSpace
    THEN TrimEnd(SubSeq(s, 1, Len(s) - 1))
    ELSE s

\* s.trim()
Trim(s) == TrimEnd(TrimStart(s))

Digits == <<"0", "1", "2", "3", "4", "5", "6", "7", "8", "9">>

\* n.toString() for a natural number n
RECURSIVE ToString(_)
ToString(n) ==
    IF n < 10 THEN Digits[n + 1]
    ELSE ToString(n \div 10) \o Digits[(n % 10) + 1]

\* arr.join(sep)
RECURSIVE Join(_, _)
Join(arr, sep) ==
    IF Len(arr) = 0 THEN ""
    ELSE IF Len(arr) = 1 THEN arr[1]
    ELSE arr[1] \o sep \o Join(Tail(arr), sep)

\* arr.findIndex(p), given hits[i] = p(arr[i]); 1-based, and 0 stands for
\* JavaScript's -1
FindIndex(hits) ==
    IF \E i \in 1..Len(hits) : hits[i]
    THEN CHOOSE i \in 1..Len(hits) : hits[i] /\ \A j \in 1..(i - 1) : ~hits[j]
    ELSE 0

\* arr.splice(i, 1)
RemoveAt(arr, i) == SubSeq(arr, 1, i - 1) \o SubSeq(arr, i + 1, Len(arr))

----------------------------------------------------------------------------
(* storage.ts: the seeded collections *)

\* An object with no properties
EmptyObject == [k \in {} |-> Undefined]

\* The seeded dates all lie before the start of the process; the model keeps
\* their order: 2024-01-15 < 2024-01-20 < ... < 2024-02-10 < StartTime.
SeedCourse(id, title, description, category, duration, day) ==
    [id |-> Str(id), title |-> Str(title), description |-> Str(description),
     category |-> Str(category), level |-> Str("intermediate"),
     duration |-> Int1(duration), published |-> Bool(TRUE),
     createdAt |-> DateAt(day), updatedAt |-> DateAt(day), userId |-> Str("1")]

SeedCourses ==
    << SeedCourse("1", "Pearson BTEC Level 4 Diploma in Business Administration",
                  "Comprehensive business administration course covering management principles, finance, marketing, and operational strategies.",
                  "Business & Management", 40, 1),
       SeedCourse("2", "Level 3 Diploma in Health and Social Care",
                  "Essential training for healthcare professionals covering patient care, medical ethics, and social care practices.",
                  "Health & Social Care", 60, 2),
       SeedCourse("3", "BTEC Level 3 IT Diploma",
                  "Complete information technology course covering programming, networking, cybersecurity, and system administration.",
                  "Information Technology", 80, 3),
       SeedCourse("4", "CACHE Level 3 Award in Childcare",
                  "Specialized training for childcare professionals focusing on child development, safety, and educational practices.",
                  "Teaching & Education", 30, 4),
       SeedCourse("5", "AAT Level 3 Diploma in Accounting",
                  "Professional accounting qualification covering financial reporting, taxation, and business finance principles.",
                  "Accounting & Finance", 50, 5),
       SeedCourse("6", "Level 4 Teaching Assistant Diploma",
                  "Advanced training for teaching assistants covering classroom management, special needs education, and student support.",
                  "Teaching & Education", 70, 6) >>

SeedUser(id, username, email, password) ==
    [id |-> Str(id), username |-> Str(username), email |-> Str(email),
     password |-> Str(password), lastLogin |-> Null]

SeedUsers ==
    << SeedUser("1", "admin", "admin@example.com", "password123"),
       SeedUser("2", "user", "user@example.com", "user123") >>

\* getCourseById(id): the first course with that id, Undefined when none
getCourseById(id) ==
    LET i == FindIndex([n \in 1..Len(courses) |-> courses[n].id = id])
    IN  IF i = 0 THEN Undefined ELSE courses[i]

\* A lookup that settles for the first user when no name matches
findUserOrFirst(username) ==
    LET i == FindIndex([n \in 1..Len(users) |-> users[n].username = username])
    IN  IF i = 0 THEN users[1] ELSE users[i]

\* findUserByUsername(username): the first user with that name
findUserByUsername(username) ==
    LET i == FindIndex([n \in 1..Len(users) |-> users[n].username = username])
    IN  IF i = 0 THEN Undefined ELSE users[i]

\* addCourse(course) with the three clock readings it takes:
\* Date.now() for the id, new Date() for createdAt, new Date() for updatedAt
addCourse(course, tId, tCreated, tUpdated) ==
    Spread(course, [id |-> Str(ToString(tId)),
                    createdAt |-> DateAt(tCreated),
                    updatedAt |-> DateAt(tUpdated)])

\* updateCourse(id, updates): the array after the update; `found` is FALSE
\* (the function returns null) when no course has the id
updateCourse(id, updates, t) ==
    LET courseIndex == FindIndex([n \in 1..Len(courses) |-> courses[n].id = id])
    IN  IF courseIndex = 0
        THEN [found |-> FALSE, courses |-> courses, course |-> Null]
        ELSE LET merged == Spread(Spread(courses[courseIndex], updates),
                                  [updatedAt |-> DateAt(t)])
             IN  [found |-> TRUE,
                  courses |-> [courses EXCEPT ![courseIndex] = merged],
                  course |-> merged]

\* deleteCourse without the early return: splice(-1, 1) removes the last course
deleteCourseSpliceLast(id) ==
    LET courseIndex == FindIndex([n \in 1..Len(courses) |-> courses[n].id = id])
    IN  [deleted |-> TRUE,
         courses |-> RemoveAt(courses, IF courseIndex = 0 THEN Len(courses)
                                       ELSE courseIndex)]

\* deleteCourse(id)
deleteCourse(id) ==
    LET courseIndex == FindIndex([n \in 1..Len(courses) |-> courses[n].id = id])
    IN  IF courseIndex = 0
        THEN [deleted |-> FALSE, courses |-> courses]
        ELSE [deleted |-> TRUE, courses |-> RemoveAt(courses, courseIndex)]

----------------------------------------------------------------------------
(* middleware.ts: tokens and the two middlewares *)

\* The key tokens are signed with (JWT_SECRET unset in the environment)
JWT_SECRET == "your-secret-key"

\* One piece of a header that is ordinary text
Text(s) == [kind |-> "text", text |-> s]

\* A well-formed JWT: its claims and the key its signature was made with.
\* Only the holder of a key can make a token that carries it.
Jwt(payload, key) == [kind |-> "jwt", payload |-> payload, key |-> key]

\* The absent Authorization header
NoHeader == << >>

\* Math.floor(Date.now() / 1000): the JWT clock
ClockTimestamp(t) == t \div TicksPerSecond

\* jwt.sign(user, secret, { expiresIn }) at time t
JwtSign(user, secret, expiresIn, t) ==
    Jwt(Spread(user, [iat |-> ClockTimestamp(t),
                      exp |-> ClockTimestamp(t) + expiresIn]),
        secret)

\* A verification that also refuses a token a logout was answered for
JwtVerifyRevoking(token, secret, t) ==
    IF token.kind # "jwt" THEN [err |-> "jwt malformed"]
    ELSE IF token.key # secret THEN [err |-> "invalid signature"]
    ELSE IF ClockTimestamp(t) >= token.payload.exp THEN [err |-> "jwt expired"]
    ELSE IF \E s \in sessions : s.loggedOut /\ s.token = token
    THEN [err |-> "jwt revoked"]
    ELSE [err |-> "", user |-> token.payload]

\* jwt.verify(token, secret) at time t: the error, or the decoded claims
JwtVerify(token, secret, t) ==
    IF token.kind # "jwt" THEN [err |-> "jwt malformed"]
    ELSE IF token.key # secret THEN [err |-> "invalid signature"]
    ELSE IF ClockTimestamp(t) >= token.payload.exp THEN [err |-> "jwt expired"]
    ELSE [err |-> "", user |-> token.payload]

\* generateToken with twice the lifetime
generateTokenLonger(user, t) == JwtSign(user, JWT_SECRET, 2 * ExpiresIn, t)

\* generateToken(user) at time t
generateToken(user, t) == JwtSign(user, JWT_SECRET, ExpiresIn, t)

\* A failure response
Failure(status, error) == [status |-> status, success |-> FALSE, error |-> error]

\* authenticateToken that decodes the token without verifying it
authenticateTokenDecodeOnly(authHeader, t) ==
    LET token == IF Len(authHeader) >= 2 THEN authHeader[2] ELSE Undefined
    IN  IF token = Undefined \/ (token.kind = "text" /\ token.text = "")
        THEN [next |-> FALSE, res |-> Failure(401, "Access token required")]
        ELSE IF token.kind # "jwt"
        THEN [next |-> FALSE, res |-> Failure(403, "Invalid or expired token")]
        ELSE [next |-> TRUE, user |-> token.payload]

\* authenticateToken on a request with the given Authorization header at
\* time t: `next` says whether next() is called, `user` is req.user then,
\* `res` the response sent otherwise
authenticateToken(authHeader, t) ==
    LET token == IF authHeader = NoHeader THEN Undefined
                 ELSE IF Len(authHeader) >= 2 THEN authHeader[2]
                 ELSE Undefined
        noToken == \/ token = Undefined
                   \/ token.kind = "text" /\ token.text = ""
    IN  IF noToken
        THEN [next |-> FALSE, res |-> Failure(401, "Access token required")]
        ELSE LET v == JwtVerify(token, JWT_SECRET, t)
             IN  IF v.err # ""
                 THEN [next |-> FALSE,
                       res |-> Failure(403, "Invalid or expired token")]
                 ELSE [next |-> TRUE, user |-> v.user]

Levels == {"beginner", "intermediate", "advanced"}

\* The string rule shared by title, description and category:
\* !v || typeof v !== 'string' || v.trim().length === 0
BadString(v) ==
    Falsy(v) \/ TypeOf(v) # "string" \/ Len(Trim(v.str)) = 0

BadLevel(v) ==
    Falsy(v) \/ ~(TypeOf(v) = "string" /\ v.str \in Levels)

BadDuration(v) ==
    TypeOf(v) # "number" \/ v.num <= 0

BadPublished(v) ==
    TypeOf(v) # "boolean"

\* errors.push(msg) when the rule is violated
PushIf(errors, bad, msg) == IF bad THEN Append(errors, msg) ELSE errors

\* The errors array validateCourse builds for a body
CourseErrors(body) ==
    LET e1 == PushIf(<< >>, BadString(Get(body, "title")),
                     "Title is required and must be a non-empty string")
        e2 == PushIf(e1, BadString(Get(body, "description")),
                     "Description is required and must be a non-empty string")
        e3 == PushIf(e2, BadString(Get(body, "category")),
                     "Category is required and must be a non-empty string")
        e4 == PushIf(e3, BadLevel(Get(body, "level")),
                     "Level must be one of: beginner, intermediate, advanced")
        e5 == PushIf(e4, BadDuration(Get(body, "duration")),
                     "Duration must be a positive number")
        e6 == PushIf(e5, BadPublished(Get(body, "published")),
                     "Published must be a boolean")
    IN  e6

\* validateCourse on a request body
validateCourse(body) ==
    LET errors == CourseErrors(body)
    IN  IF Len(errors) > 0
        THEN [next |-> FALSE, res |-> Failure(400, Join(errors, ", "))]
        ELSE [next |-> TRUE]

----------------------------------------------------------------------------
(* routes.ts: the handlers *)

\* The request as the handler saw it, and the time it arrived at; `user` is
\* req.user, Undefined unless authenticateToken set it
Request(route, authHeader, id, body, user) ==
    [route |-> route, authorization |-> authHeader, id |-> id,
     body |-> body, user |-> user, at |-> now]

Success(status, data, message) ==
    [status |-> status, success |-> TRUE, data |-> data, message |-> message]

\* { id, username, email, lastLogin: lastLogin ?? null } of a user record
PublicUser(u) ==
    [id |-> u.id, username |-> u.username, email |-> u.email,
     lastLogin |-> IF Get(u, "lastLogin") = Undefined THEN Null
                   ELSE u.lastLogin]

\* emailRegex.test(s) for /^[^\s@]+@[^\s@]+\.[^\s@]+$/ on a string s:
\* one '@', at position i > 1, no white space, and a '.' after the '@'
\* that is neither next to it nor last
EmailRegexTest(s) ==
    LET n == Len(s)
        Ch(i) == SubSeq(s, i, i)
    IN  \E i \in 2..n :
          /\ Ch(i) = "@"
          /\ \A k \in 1..n : k # i => Ch(k) \notin (WhiteSpace \cup {"@"})
          /\ \E j \in (i + 2)..(n - 1) : Ch(j) = "."

\* the clock reaches StartTime + MaxTime at most
ClockLimit == StartTime + MaxTime

\* no request in hand
NoRequest == [route |-> "none", authorization |-> NoHeader, id |-> Undefined,
              body |-> EmptyObject, user |-> Undefined, at |-> 0]

\* Time passes between two requests: the response in hand has been delivered
Tick ==
    /\ now < ClockLimit
    /\ now' = now + 1
    /\ req' = NoRequest
    /\ res' = [status |-> 0]
    /\ UNCHANGED <<users, courses, sessions, courseList, browser>>

\* The client drops the login it holds (the frontend's clearToken)
DiscardToken(session) ==
    /\ session \in sessions
    /\ sessions' = sessions \ {session}
    /\ UNCHANGED <<users, courses, now, req, res, courseList, browser>>

\* POST /auth/login with body { username, password }
LoginRoute(username, password) ==
    LET body == [username |-> username, password |-> password]
        user == findUserByUsername(username)
        request == Request("POST /auth/login", NoHeader, Undefined, body, Undefined)
    IN  /\ req' = request
        /\ IF Falsy(username) \/ Falsy(password)
           THEN /\ res' = Failure(400, "Username and password are required")
                /\ UNCHANGED <<users, courses, now, sessions>>
           ELSE IF user = Undefined \/ user.password # password
           THEN /\ res' = Failure(401, "Invalid credentials")
                /\ UNCHANGED <<users, courses, now, sessions>>
           ELSE LET userIndex == FindIndex([n \in 1..Len(users) |-> users[n].id = user.id])
                    token == generateToken([id |-> user.id,
                                            username |-> user.username], now)
                    data == [token |-> token,
                             user |-> PublicUser(
                                 [user EXCEPT !.lastLogin = DateAt(now)])]
                    session == [token |-> token, user |-> data.user, at |-> now,
                                loggedOut |-> FALSE]
                IN  /\ users' = [users EXCEPT ![userIndex].lastLogin = DateAt(now)]
                    /\ sessions' = {session}
                    /\ res' = Success(200, data, "")
                    /\ UNCHANGED <<courses, now>>

\* The login route called by a client other than the frontend
Login(username, password) ==
    LoginRoute(username, password) /\ UNCHANGED <<courseList, browser>>

\* POST /auth/logout. The handler only answers; the token stays with whoever
\* holds it until DiscardToken, and is marked as logged out there
LogoutRoute(authHeader) ==
    LET auth == authenticateToken(authHeader, now)
    IN  /\ req' = Request("POST /auth/logout", authHeader, Undefined, EmptyObject,
                          IF auth.next THEN auth.user ELSE Undefined)
        /\ res' = IF ~auth.next THEN auth.res
                  ELSE Success(200, [message |-> "Logged out successfully"], "")
        /\ sessions' = IF ~auth.next THEN sessions
                       ELSE { IF s.token = authHeader[2]
                              THEN [s EXCEPT !.loggedOut = TRUE] ELSE s :
                              s \in sessions }
        /\ UNCHANGED <<users, courses, now>>

\* The logout route called by a client other than the frontend
Logout(authHeader) ==
    LogoutRoute(authHeader) /\ UNCHANGED <<courseList, browser>>

\* GET /courses
GetCourses ==
    /\ req' = Request("GET /courses", NoHeader, Undefined, EmptyObject, Undefined)
    /\ res' = Success(200, courses, "")
    /\ UNCHANGED <<users, courses, now, sessions, courseList, browser>>

\* GET /courses/:id
GetCourse(id) ==
    LET course == getCourseById(Str(id))
    IN  /\ req' = Request("GET /courses/:id", NoHeader, Str(id), EmptyObject, Undefined)
        /\ res' = IF id = "" THEN Failure(400, "Course ID is required")
                  ELSE IF course = Undefined THEN Failure(404, "Course not found")
                  ELSE Success(200, course, "")
        /\ UNCHANGED <<users, courses, now, sessions, courseList, browser>>

\* POST /courses. addCourse reads the clock three times (Date.now(), then
\* new Date() twice); d1 and d2 are the ticks that pass between the readings.
CreateCourseRoute(authHeader, body, d1, d2) ==
    LET auth == authenticateToken(authHeader, now)
        valid == validateCourse(body)
        newCourse == addCourse(body, now, now + d1, now + d1 + d2)
    IN  /\ req' = Request("POST /courses", authHeader, Undefined, body,
                          IF auth.next THEN auth.user ELSE Undefined)
        /\ IF ~auth.next
           THEN res' = auth.res /\ UNCHANGED <<courses, now>>
           ELSE IF ~valid.next
           THEN res' = valid.res /\ UNCHANGED <<courses, now>>
           ELSE /\ now + d1 + d2 <= ClockLimit
                /\ courses' = Append(courses, newCourse)
                /\ now' = now + d1 + d2
                /\ res' = Success(201, newCourse, "Course created successfully")
        /\ UNCHANGED <<users, sessions>>

\* The route called by a client other than the frontend
CreateCourse(authHeader, body, d1, d2) ==
    CreateCourseRoute(authHeader, body, d1, d2) /\ UNCHANGED <<courseList, browser>>

\* PUT /courses/:id with the lookup of the id before the validation
UpdateCourseRouteLookupFirst(authHeader, id, body) ==
    LET auth == authenticateToken(authHeader, now)
        valid == validateCourse(body)
        updated == updateCourse(Str(id), body, now)
    IN  /\ req' = Request("PUT /courses/:id", authHeader, Str(id), body,
                          IF auth.next THEN auth.user ELSE Undefined)
        /\ IF ~auth.next
           THEN res' = auth.res /\ UNCHANGED courses
           ELSE IF id = ""
           THEN res' = Failure(400, "Course ID is required") /\ UNCHANGED courses
           ELSE IF ~updated.found
           THEN res' = Failure(404, "Course not found") /\ UNCHANGED courses
           ELSE IF ~valid.next
           THEN res' = valid.res /\ UNCHANGED courses
           ELSE /\ courses' = updated.courses
                /\ res' = Success(200, updated.course, "Course updated successfully")
        /\ UNCHANGED <<users, now, sessions>>

\* PUT /courses/:id
UpdateCourseRoute(authHeader, id, body) ==
    LET auth == authenticateToken(authHeader, now)
        valid == validateCourse(body)
        updated == updateCourse(Str(id), body, now)
    IN  /\ req' = Request("PUT /courses/:id", authHeader, Str(id), body,
                          IF auth.next THEN auth.user ELSE Undefined)
        /\ IF ~auth.next
           THEN res' = auth.res /\ UNCHANGED courses
           ELSE IF ~valid.next
           THEN res' = valid.res /\ UNCHANGED courses
           ELSE IF id = ""
           THEN res' = Failure(400, "Course ID is required") /\ UNCHANGED courses
           ELSE IF ~updated.found
           THEN res' = Failure(404, "Course not found") /\ UNCHANGED courses
           ELSE /\ courses' = updated.courses
                /\ res' = Success(200, updated.course, "Course updated successfully")
        /\ UNCHANGED <<users, now, sessions>>

\* The route called by a client other than the frontend
UpdateCourse(authHeader, id, body) ==
    UpdateCourseRoute(authHeader, id, body) /\ UNCHANGED <<courseList, browser>>

\* DELETE /courses/:id
DeleteCourseRoute(authHeader, id) ==
    LET auth == authenticateToken(authHeader, now)
        deleted == deleteCourse(Str(id))
    IN  /\ req' = Request("DELETE /courses/:id", authHeader, Str(id), EmptyObject,
                          IF auth.next THEN auth.user ELSE Undefined)
        /\ IF ~auth.next
           THEN res' = auth.res /\ UNCHANGED courses
           ELSE IF id = ""
           THEN res' = Failure(400, "Course ID is required") /\ UNCHANGED courses
           ELSE IF ~deleted.deleted
           THEN res' = Failure(404, "Course not found") /\ UNCHANGED courses
           ELSE /\ courses' = deleted.courses
                /\ res' = Success(200, [message |-> "Course deleted successfully"], "")
        /\ UNCHANGED <<users, now, sessions>>

\* The route called by a client other than the frontend
DeleteCourse(authHeader, id) ==
    DeleteCourseRoute(authHeader, id) /\ UNCHANGED <<courseList, browser>>

\* The count taken without the filter
CoursesCreatedAll(id) == Len(courses)

\* courses.filter(course => course.userId === id).length
CoursesCreated(id) ==
    Cardinality({i \in 1..Len(courses) : Get(courses[i], "userId") = id})

\* { ...obj, k: v } as res.json sends it: a property that is undefined is
\* left out
JsonWith(obj, k, v) ==
    IF v = Undefined THEN [j \in DOMAIN obj \ {k} |-> obj[j]]
    ELSE Spread(obj, [j \in {k} |-> v])

\* GET /profile: the handler reads req.user, the decoded token
GetProfile(authHeader) ==
    LET auth == authenticateToken(authHeader, now)
        user == auth.user
        profileData == JsonWith(
            Spread(user, [coursesCreated |-> Int1(CoursesCreated(user.id))]),
            "lastLogin", Get(user, "lastLogin"))
    IN  /\ req' = Request("GET /profile", authHeader, Undefined, EmptyObject,
                          IF auth.next THEN auth.user ELSE Undefined)
        /\ res' = IF ~auth.next THEN auth.res
                  ELSE Success(200, profileData, "")
        /\ UNCHANGED <<users, courses, now, sessions, courseList, browser>>

\* The conflict check without the comparison of the ids
UsernameTakenByAnyone(username, userId) ==
    \E i \in 1..Len(users) : users[i].username = username

\* The conflict check with the comparison of the ids turned around
UsernameTakenBySelf(username, userId) ==
    \E i \in 1..Len(users) :
        users[i].username = username /\ users[i].id = userId

\* users.find(u => u.username === username && u.id !== user.id) finds a user
UsernameTaken(username, userId) ==
    \E i \in 1..Len(users) :
        users[i].username = username /\ users[i].id # userId

\* PUT /profile that writes to the first record, whoever asks
UpdateProfileOfFirst(authHeader, username, email) ==
    LET auth == authenticateToken(authHeader, now)
        user == auth.user
        body == [username |-> username, email |-> email]
        userIndex == 1
        taken == UsernameTaken(username, user.id)
        updatedUser == Spread(users[userIndex],
                              [username |-> username, email |-> email])
    IN  /\ req' = Request("PUT /profile", authHeader, Undefined, body,
                          IF auth.next THEN auth.user ELSE Undefined)
        /\ IF ~auth.next
           THEN res' = auth.res /\ UNCHANGED users
           ELSE IF Falsy(username) \/ Falsy(email)
           THEN res' = Failure(400, "Username and email are required")
                /\ UNCHANGED users
           ELSE IF ~(TypeOf(email) = "string" /\ EmailRegexTest(email.str))
           THEN res' = Failure(400, "Invalid email format") /\ UNCHANGED users
           ELSE IF userIndex = 0
           THEN res' = Failure(404, "User not found") /\ UNCHANGED users
           ELSE IF taken
           THEN res' = Failure(409, "Username already taken") /\ UNCHANGED users
           ELSE /\ users' = [users EXCEPT ![userIndex] = updatedUser]
                /\ res' = Success(200, PublicUser(updatedUser),
                                  "Profile updated successfully")
        /\ UNCHANGED <<courses, now, sessions, courseList, browser>>

\* PUT /profile with body { username, email }
UpdateProfile(authHeader, username, email) ==
    LET auth == authenticateToken(authHeader, now)
        user == auth.user
        body == [username |-> username, email |-> email]
        userIndex == FindIndex([n \in 1..Len(users) |-> users[n].id = user.id])
        taken == UsernameTaken(username, user.id)
        updatedUser == Spread(users[userIndex],
                              [username |-> username, email |-> email])
    IN  /\ req' = Request("PUT /profile", authHeader, Undefined, body,
                          IF auth.next THEN auth.user ELSE Undefined)
        /\ IF ~auth.next
           THEN res' = auth.res /\ UNCHANGED users
           ELSE IF Falsy(username) \/ Falsy(email)
           THEN res' = Failure(400, "Username and email are required")
                /\ UNCHANGED users
           ELSE IF ~(TypeOf(email) = "string" /\ EmailRegexTest(email.str))
           THEN res' = Failure(400, "Invalid email format") /\ UNCHANGED users
           ELSE IF userIndex = 0
           THEN res' = Failure(404, "User not found") /\ UNCHANGED users
           ELSE IF taken
           THEN res' = Failure(409, "Username already taken") /\ UNCHANGED users
           ELSE /\ users' = [users EXCEPT ![userIndex] = updatedUser]
                /\ res' = Success(200, PublicUser(updatedUser),
                                  "Profile updated successfully")
        /\ UNCHANGED <<courses, now, sessions, courseList, browser>>

----------------------------------------------------------------------------
(* CourseList.tsx: the filtered and sorted view of the fetched courses *)

\* The characters of the model's strings, in the order of their UTF-16 code
\* units
CodeUnits == " &,.0123456789ABCDEFGHIJKLMNOPQRSTUVWXYZabcdefghijklmnopqrstuvwxyz"
UpperCase == "ABCDEFGHIJKLMNOPQRSTUVWXYZ"
LowerCase == "abcdefghijklmnopqrstuvwxyz"

\* s.indexOf(c) + 1 for a character c: 0 when s does not hold it
IndexIn(c, s) ==
    IF \E i \in 1..Len(s) : SubSeq(s, i, i) = c
    THEN CHOOSE i \in 1..Len(s) :
             SubSeq(s, i, i) = c /\ \A j \in 1..(i - 1) : SubSeq(s, j, j) # c
    ELSE 0

\* The characters, each as a string of length one
Characters == {SubSeq(CodeUnits, i, i) : i \in 1..Len(CodeUnits)}

\* The place of each character in the order of the code units
CodeUnitOf == [c \in Characters |-> IndexIn(c, CodeUnits)]

\* c.toLowerCase() for each character
LowerCaseOf ==
    [c \in Characters |->
        LET u == IndexIn(c, UpperCase)
        IN  IF u = 0 THEN c ELSE SubSeq(LowerCase, u, u)]

\* A conversion that leaves the case as it is
KeepCase(s) == s

\* s.toLowerCase()
RECURSIVE ToLowerCase(_)
ToLowerCase(s) ==
    IF Len(s) = 0 THEN ""
    ELSE LowerCaseOf[SubSeq(s, 1, 1)] \o ToLowerCase(SubSeq(s, 2, Len(s)))

\* s.includes(sub)
Includes(s, sub) ==
    \E i \in 1..(Len(s) - Len(sub) + 1) : SubSeq(s, i, i + Len(sub) - 1) = sub

\* a < b for two strings: by code units, a proper prefix first
RECURSIVE StrLess(_, _)
StrLess(a, b) ==
    IF Len(b) = 0 THEN FALSE
    ELSE IF Len(a) = 0 THEN TRUE
    ELSE LET x == CodeUnitOf[SubSeq(a, 1, 1)]
             y == CodeUnitOf[SubSeq(b, 1, 1)]
         IN  IF x # y THEN x < y
             ELSE StrLess(SubSeq(a, 2, Len(a)), SubSeq(b, 2, Len(b)))

\* x < y for two strings, two numbers or two Dates
JsLess(x, y) ==
    CASE x.type = "string" -> StrLess(x.str, y.str)
      [] x.type = "number" -> x.num * y.den < y.num * x.den
      [] x.type = "date" -> x.ms < y.ms

\* courses.filter(course => matchesSearch && matchesCategory && matchesLevel
\* && matchesPublished)
filteredCourses(cs, searchQuery, selectedCategories, selectedLevel, publishedFilter) ==
    LET Matches(course) ==
          LET matchesSearch ==
                \/ searchQuery.str = ""
                \/ Includes(ToLowerCase(course.title.str),
                            ToLowerCase(searchQuery.str))
                \/ Includes(ToLowerCase(course.description.str),
                            ToLowerCase(searchQuery.str))
              matchesCategory ==
                \/ Len(selectedCategories) = 0
                \/ \E i \in 1..Len(selectedCategories) :
                      selectedCategories[i] = course.category
              matchesLevel ==
                selectedLevel.str = "" \/ course.level = selectedLevel
              matchesPublished ==
                publishedFilter = Null \/ course.published = publishedFilter
          IN  matchesSearch /\ matchesCategory /\ matchesLevel
                /\ matchesPublished
    IN  SelectSeq(cs, Matches)

SortFields ==
    {"title", "category", "level", "duration", "createdAt", "updatedAt"}

\* The order of the levels by difficulty
LevelRank(level) ==
    CASE level = "beginner" -> 1
      [] level = "intermediate" -> 2
      [] level = "advanced" -> 3

\* aValue with the levels sorted by difficulty
SortValueByRank(course, sortField) ==
    CASE sortField = "title" -> Str(ToLowerCase(course.title.str))
      [] sortField = "category" -> Str(ToLowerCase(course.category.str))
      [] sortField = "level" -> Int1(LevelRank(course.level.str))
      [] sortField = "duration" -> course.duration
      [] sortField = "createdAt" -> course.createdAt
      [] sortField = "updatedAt" -> course.updatedAt

\* aValue / bValue of the comparator for a course
SortValue(course, sortField) ==
    CASE sortField = "title" -> Str(ToLowerCase(course.title.str))
      [] sortField = "category" -> Str(ToLowerCase(course.category.str))
      [] sortField = "level" -> course.level
      [] sortField = "duration" -> course.duration
      [] sortField = "createdAt" -> course.createdAt
      [] sortField = "updatedAt" -> course.updatedAt

\* The comparator handed to sort
Compare(a, b, sortField, sortDirection) ==
    IF sortField \notin SortFields THEN 0
    ELSE LET aValue == SortValue(a, sortField)
             bValue == SortValue(b, sortField)
         IN  IF JsLess(aValue, bValue)
             THEN (IF sortDirection = "asc" THEN -1 ELSE 1)
             ELSE IF JsLess(bValue, aValue)
             THEN (IF sortDirection = "asc" THEN 1 ELSE -1)
             ELSE 0

\* An insertion that puts a course before the courses it ties with
InsertBeforeTies(sorted, x, sortField, sortDirection) ==
    LET j == CHOOSE j \in 0..Len(sorted) :
                 /\ j = 0 \/ Compare(sorted[j], x, sortField, sortDirection) < 0
                 /\ \A k \in (j + 1)..Len(sorted) :
                       Compare(sorted[k], x, sortField, sortDirection) >= 0
    IN  SubSeq(sorted, 1, j) \o << x >> \o SubSeq(sorted, j + 1, Len(sorted))

\* One step of Array.prototype.sort, which is stable: the course goes behind
\* the courses that the comparator does not put after it
InsertSorted(sorted, x, sortField, sortDirection) ==
    LET j == CHOOSE j \in 0..Len(sorted) :
                 /\ j = 0 \/ Compare(sorted[j], x, sortField, sortDirection) <= 0
                 /\ \A k \in (j + 1)..Len(sorted) :
                       Compare(sorted[k], x, sortField, sortDirection) > 0
    IN  SubSeq(sorted, 1, j) \o << x >> \o SubSeq(sorted, j + 1, Len(sorted))

RECURSIVE SortInto(_, _, _, _)
SortInto(sorted, rest, sortField, sortDirection) ==
    IF Len(rest) = 0 THEN sorted
    ELSE SortInto(InsertSorted(sorted, Head(rest), sortField, sortDirection),
                  Tail(rest), sortField, sortDirection)

\* [...filtered].sort(comparator)
sortedCourses(filtered, sortField, sortDirection) ==
    SortInto(<< >>, filtered, sortField, sortDirection)

\* The state of the component when it mounts: the useState defaults
NewCourseList ==
    [courses |-> << >>, searchQuery |-> Str(""), selectedCategories |-> << >>,
     selectedLevel |-> Str(""), publishedFilter |-> Null,
     sortField |-> "title", sortDirection |-> "asc"]

\* Array.from(new Set(courses.map(course => course.category)))
categories == {courseList.courses[i].category : i \in 1..Len(courseList.courses)}

\* fetchCourses: GET /courses, and setCourses(response.data)
FetchCourses ==
    /\ req' = Request("GET /courses", NoHeader, Undefined, EmptyObject, Undefined)
    /\ res' = Success(200, courses, "")
    /\ courseList' = [courseList EXCEPT !.courses = courses]
    /\ UNCHANGED <<users, courses, now, sessions, browser>>

\* The search box: setSearchQuery(e.target.value)
SetSearchQuery(value) ==
    /\ courseList' = [courseList EXCEPT !.searchQuery = value]
    /\ UNCHANGED <<users, courses, now, sessions, req, res, browser>>

\* A click on the button of a category: it leaves the selection if it is in
\* it, and joins it at the end if not
ToggleCategory(category) ==
    LET selected == courseList.selectedCategories
        includes == \E i \in 1..Len(selected) : selected[i] = category
        Other(c) == c # category
    IN  /\ category \in categories
        /\ courseList' = [courseList EXCEPT !.selectedCategories =
                            IF includes THEN SelectSeq(selected, Other)
                            ELSE Append(selected, category)]
        /\ UNCHANGED <<users, courses, now, sessions, req, res, browser>>

\* The level select: setSelectedLevel(e.target.value)
SetSelectedLevel(value) ==
    /\ courseList' = [courseList EXCEPT !.selectedLevel = value]
    /\ UNCHANGED <<users, courses, now, sessions, req, res, browser>>

\* The 'Published Only' button
TogglePublished ==
    /\ courseList' = [courseList EXCEPT !.publishedFilter =
                        IF courseList.publishedFilter = Bool(TRUE) THEN Null
                        ELSE Bool(TRUE)]
    /\ UNCHANGED <<users, courses, now, sessions, req, res, browser>>

\* The two selects of the sort spec
SetSortField(value) ==
    /\ courseList' = [courseList EXCEPT !.sortField = value]
    /\ UNCHANGED <<users, courses, now, sessions, req, res, browser>>

SetSortDirection(value) ==
    /\ courseList' = [courseList EXCEPT !.sortDirection = value]
    /\ UNCHANGED <<users, courses, now, sessions, req, res, browser>>

\* clearFilters
ClearFilters ==
    /\ courseList' = [NewCourseList EXCEPT !.courses = courseList.courses]
    /\ UNCHANGED <<users, courses, now, sessions, req, res, browser>>

\* What the component renders: the fetched courses, filtered, then sorted
ViewFiltered ==
    filteredCourses(courseList.courses, courseList.searchQuery,
                    courseList.selectedCategories, courseList.selectedLevel,
                    courseList.publishedFilter)

ViewSorted ==
    sortedCourses(ViewFiltered, courseList.sortField, courseList.sortDirection)

----------------------------------------------------------------------------
(* The session in the browser: AuthContext.tsx (AuthProvider), lib/api.ts  *)
(* (ApiClient), the redirects of the pages, and the handlers of the course *)
(* list that call the server                                               *)

\* localStorage with neither 'authToken' nor 'user' in it
EmptyStorage == [authToken |-> Null, user |-> Null]

\* JSON.stringify(value): the text kept under 'user'
JsonStringify(value) == [kind |-> "json", of |-> value]

\* JSON.parse(text): the value, or not ok when it throws a SyntaxError
JsonParse(text) ==
    IF text.kind = "json" THEN [ok |-> TRUE, value |-> text.of]
    ELSE [ok |-> FALSE]

\* The browser on its first visit, as the home page starts to load
NewBrowser ==
    [localStorage |-> EmptyStorage, token |-> Null, user |-> Null,
     isLoading |-> TRUE, requested |-> "/", pathname |-> "/"]

\* The pages whose effect redirects a visitor who is not logged in
ProtectedPages == {"/dashboard", "/profile"}

\* The Authorization header ApiClient.request adds: none without a token
AuthorizationOf(token) ==
    IF token = Null \/ token = Text("") THEN NoHeader
    ELSE << Text("Bearer"), token >>

\* The path shown once the effect of the page at `path` has run with the
\* given values of useAuth(): Dashboard waits for isLoading, ProfilePage
\* does not, Home sends a logged-in user to the dashboard
Redirected(path, user, isLoading) ==
    CASE path = "/dashboard" /\ ~isLoading /\ user = Null -> "/login"
      [] path = "/profile" /\ user = Null -> "/login"
      [] path = "/" /\ ~isLoading /\ user # Null -> "/dashboard"
      [] OTHER -> path

\* A full page load of `path` (an address typed, a refresh, an assignment to
\* window.location.href): the memory of the page is new, localStorage is
\* kept, and the first render runs the effect of the page with the initial
\* values of the AuthProvider (user null, isLoading true)
LoadPage(path) ==
    /\ browser' = [localStorage |-> browser.localStorage, token |-> Null,
                   user |-> Null, isLoading |-> TRUE, requested |-> path,
                   pathname |-> Redirected(path, Null, TRUE)]
    /\ courseList' = NewCourseList
    /\ UNCHANGED <<users, courses, now, sessions, req, res>>

\* The effect of the AuthProvider on mount, on the browser b
RestoreSession(b) ==
    LET token == b.localStorage.authToken
        storedUser == b.localStorage.user
        parsed == JsonParse(storedUser)
    IN  IF token = Null \/ token = Text("")
        THEN [b EXCEPT !.isLoading = FALSE]
        ELSE IF storedUser = Null \/ storedUser = Text("")
        THEN [b EXCEPT !.token = token, !.isLoading = FALSE]
        ELSE IF parsed.ok
        THEN [b EXCEPT !.token = token, !.user = parsed.value,
                       !.isLoading = FALSE]
        ELSE [b EXCEPT !.token = token, !.localStorage = EmptyStorage,
                       !.isLoading = FALSE]

\* The AuthProvider mounts: its effect runs, and the page renders again with
\* the user and isLoading it set
AuthProviderMount ==
    LET restored == RestoreSession(browser)
    IN  /\ browser.isLoading
        /\ browser' = [restored EXCEPT !.pathname =
                          Redirected(browser.pathname, restored.user, FALSE)]
        /\ UNCHANGED <<users, courses, now, sessions, req, res, courseList>>

\* The login form submitted: AuthContext.login calls ApiClient.login, which
\* keeps the token of a success; the context then stores the token and the
\* user and sets the user, and the login page goes to '/', which sends a
\* logged-in user on to the dashboard
AuthLogin(username, password) ==
    /\ ~browser.isLoading
    /\ browser.pathname = "/login"
    /\ LoginRoute(username, password)
    /\ browser' =
         IF res'.success
         THEN [browser EXCEPT
                 !.token = res'.data.token,
                 !.localStorage = [authToken |-> res'.data.token,
                                   user |-> JsonStringify(res'.data.user)],
                 !.user = res'.data.user,
                 !.pathname = Redirected("/", res'.data.user, FALSE)]
         ELSE browser
    /\ courseList' = NewCourseList

\* ApiClient.logout on an answer of the server: clearToken on a success
ApiClientLogout(b, response) ==
    IF response.success THEN [b EXCEPT !.token = Null] ELSE b

\* The finally block of AuthContext.logout with the call of clearToken left
\* out
logoutFinallyKeepingToken(b) ==
    [b EXCEPT !.localStorage = EmptyStorage, !.user = Null]

\* The finally block of AuthContext.logout
logoutFinally(b) ==
    [b EXCEPT !.localStorage = EmptyStorage, !.token = Null, !.user = Null]

\* AuthContext.logout, from the navigation bar or the profile page. The
\* request is answered by the server, or fetch throws (`thrown`) and the
\* server never sees it
AuthLogout(thrown) ==
    LET called == IF thrown THEN browser
                  ELSE ApiClientLogout(browser, res')
        cleared == logoutFinally(called)
    IN  /\ ~browser.isLoading
        /\ browser.user # Null
        /\ IF thrown
           THEN UNCHANGED <<users, courses, now, sessions, req, res>>
           ELSE LogoutRoute(AuthorizationOf(browser.token))
        /\ browser' = [cleared EXCEPT !.pathname =
                          Redirected(browser.pathname, cleared.user, FALSE)]
        /\ courseList' = NewCourseList

\* The dashboard is shown to a logged-in user
DashboardShown ==
    /\ ~browser.isLoading
    /\ browser.user # Null
    /\ browser.pathname = "/dashboard"

\* The Logout quick action of the dashboard, confirmed: the browser loads
\* '/login'
LogoutQuickAction == DashboardShown /\ LoadPage("/login")

\* CourseForm.validate
validate(formData) ==
    /\ Trim(formData.title.str) # ""
    /\ Trim(formData.description.str) # ""
    /\ Trim(formData.category.str) # ""
    /\ formData.level.str \in Levels
    /\ formData.duration.den = 1 /\ formData.duration.num > 0

\* The formData of the form opened on `course` (Null: a new course) once
\* handleChange has put the typed fields into it; JSON.stringify leaves an
\* undefined userId out
FormData(course, typed) ==
    IF course = Null
    THEN Spread([title |-> Str(""), description |-> Str(""),
                 category |-> Str(""), level |-> Str("beginner"),
                 duration |-> Int1(0), published |-> Bool(FALSE),
                 userId |-> IF Falsy(Get(browser.user, "id")) THEN Str("")
                            ELSE browser.user.id],
                typed)
    ELSE LET fields == [title |-> course.title,
                        description |-> course.description,
                        category |-> course.category, level |-> course.level,
                        duration |-> course.duration,
                        published |-> course.published]
         IN  Spread(IF Get(course, "userId") = Undefined THEN fields
                    ELSE Spread(fields, [userId |-> course.userId]),
                    typed)

\* CourseForm.handleSubmit on the list of the dashboard: nothing is sent
\* when validate() fails; a success calls onSuccess, which is
\* handleFormSuccess of the list: fetchCourses, setCourses(response.data)
HandleSubmit(course, formData) ==
    /\ DashboardShown
    /\ IF ~validate(formData)
       THEN UNCHANGED <<users, courses, now, sessions, req, res, courseList>>
       ELSE /\ IF course = Null
               THEN CreateCourseRoute(AuthorizationOf(browser.token),
                                      formData, 0, 0)
               ELSE UpdateCourseRoute(AuthorizationOf(browser.token),
                                      course.id.str, formData)
            /\ courseList' = IF res'.success
                             THEN [courseList EXCEPT !.courses = courses']
                             ELSE courseList
    /\ UNCHANGED browser

\* CourseList.handleDeleteConfirm for the course id picked in the list: a
\* success takes the courses with that id out of the courses held
HandleDeleteConfirm(id) ==
    LET Other(course) == course.id # id
    IN  /\ DashboardShown
        /\ DeleteCourseRoute(AuthorizationOf(browser.token), id.str)
        /\ courseList' = IF res'.success
                         THEN [courseList EXCEPT !.courses =
                                  SelectSeq(courseList.courses, Other)]
                         ELSE courseList
        /\ UNCHANGED browser

----------------------------------------------------------------------------
(* The system: the state after start-up and the requests clients send *)

Init ==
    /\ users = SeedUsers
    /\ courses = SeedCourses
    /\ now = StartTime
    /\ sessions = {}
    /\ req = NoRequest
    /\ res = [status |-> 0]
    /\ courseList = NewCourseList
    /\ browser = NewBrowser


\* A token an attacker signed with a key of their own
ForgedToken ==
    Jwt([id |-> Str("1"), username |-> Str("admin"), iat |-> 0,
         exp |-> ClockTimestamp(ClockLimit) + ExpiresIn + 1], "attacker-key")

\* Authorization headers without a token the server signed
BadHeaders ==
    { NoHeader,
      << Text("Bearer") >>,
      << Text("Bearer"), Text("not.a.jwt") >>,
      << Text("Bearer"), ForgedToken >> }

\* Authorization headers a client that holds tokens can send
Headers ==
    BadHeaders
      \cup { << Text("Bearer"), s.token >> : s \in sessions }
      \cup { << Text("Basic"), s.token >> : s \in sessions }

\* The body of the scenario of the specification, section 8
ValidBody ==
    [title |-> Str("T"), description |-> Str("D"), category |-> Str("C"),
     level |-> Str("beginner"), duration |-> Int1(5), published |-> Bool(FALSE)]

\* A body with one valid field only
PartialBody == [title |-> Str("New title")]

\* Bodies that break several rules
InvalidBody ==
    [title |-> Str("  "), description |-> Str("D"), category |-> Int1(7),
     level |-> Str("expert"), duration |-> Int1(0), published |-> Bool(TRUE)]

\* The requests of the full API, with few inputs each
ApiBodies == {ValidBody}
ApiIds == {"1"}
ApiLogins ==
    { <<Str("admin"), Str("password123")>>, <<Str("admin"), Str("wrong")>>,
      <<Str("admin"), Str("")>> }

\* fewer courses than the seeded ones and n more
CreatedBelow(n) == Len(courses) < Len(SeedCourses) + n

Next ==
    \/ Tick
    \/ \E s \in sessions : DiscardToken(s)
    \/ \E l \in ApiLogins : Login(l[1], l[2])
    \/ \E h \in Headers : Logout(h)
    \/ GetCourses
    \/ \E id \in ApiIds : GetCourse(id)
    \/ \E h \in Headers, b \in ApiBodies :
          CreatedBelow(MaxCreated) /\ CreateCourse(h, b, 0, 0)
    \/ \E h \in Headers, id \in ApiIds : UpdateCourse(h, id, ValidBody)
    \/ \E h \in Headers, id \in ApiIds : DeleteCourse(h, id)
    \/ \E h \in Headers : GetProfile(h)
    \/ \E h \in Headers : UpdateProfile(h, Str("admin"), Str("admin@example.com"))

Spec == Init /\ [][Next]_vars


----------------------------------------------------------------------------
(* The profile routes, with both seeded users and colliding names *)

\* 'Bearer <token>' for every login a client holds
SessionHeaders == { << Text("Bearer"), s.token >> : s \in sessions }

ProfileLogins ==
    { <<Str("admin"), Str("password123")>>, <<Str("user"), Str("user123")>> }
ProfileNames == {Str("admin"), Str("user"), Str("neo")}
ProfileEmails == {Str("neo@example.com"), Str("neo at example")}

\* Logins that lack a field, name nobody, or give another user's password
BadLogins ==
    { <<Undefined, Str("password123")>>, <<Str("admin"), Undefined>>,
      <<Str(""), Str("")>>, <<Str("nobody"), Str("password123")>>,
      <<Str("admin"), Str("user123")>> }

NextProfile ==
    \/ \E s \in sessions : DiscardToken(s)
    \/ \E l \in ProfileLogins \cup BadLogins : Login(l[1], l[2])
    \/ \E h \in SessionHeaders : GetProfile(h)
    \/ \E h \in SessionHeaders \cup {NoHeader}, u \in ProfileNames,
          e \in ProfileEmails : UpdateProfile(h, u, e)

SpecProfile == Init /\ [][NextProfile]_vars

----------------------------------------------------------------------------
(* The course routes, with bodies of every shape; the clock moves only
   between the clock readings of a create *)

\* A valid body but for its duration of an hour and a half
FractionalBody == [ValidBody EXCEPT !.duration = Num(3, 2)]

\* An empty title and a duration of an hour and a half
TwoFaultsBody ==
    [ValidBody EXCEPT !.title = Str(""), !.duration = Num(3, 2)]

\* A valid body that also names an id and a creation date
RenumberBody ==
    Spread(ValidBody, [id |-> Str("2"), createdAt |-> Str("2020-01-01")])

CreateBodies == {ValidBody, InvalidBody, TwoFaultsBody}
UpdateBodies ==
    {ValidBody, PartialBody, RenumberBody, FractionalBody, InvalidBody}
CourseIds == {"1", "999"}

NextCourses ==
    \/ Login(Str("admin"), Str("password123"))
    \/ \E id \in CourseIds : GetCourse(id)
    \/ \E h \in SessionHeaders \cup {NoHeader}, b \in CreateBodies,
          d1 \in 0..1, d2 \in 0..1 :
          CreatedBelow(MaxCreated) /\ CreateCourse(h, b, d1, d2)
    \/ \E h \in SessionHeaders \cup {NoHeader}, id \in CourseIds,
          b \in UpdateBodies : UpdateCourse(h, id, b)
    \/ \E h \in SessionHeaders \cup {NoHeader}, id \in CourseIds :
          DeleteCourse(h, id)

SpecCourses == Init /\ [][NextCourses]_vars

----------------------------------------------------------------------------
(* The course routes called with course fields only: no body names an id.
   One create more than elsewhere, so that two creates can meet in a tick *)

NextCatalog ==
    \/ Tick
    \/ Login(Str("admin"), Str("password123"))
    \/ \E h \in SessionHeaders :
          CreatedBelow(MaxCreated + 1) /\ CreateCourse(h, ValidBody, 0, 0)
    \/ \E h \in SessionHeaders, id \in CourseIds : UpdateCourse(h, id, ValidBody)
    \/ \E h \in SessionHeaders, id \in CourseIds : DeleteCourse(h, id)

SpecCatalog == Init /\ [][NextCatalog]_vars

----------------------------------------------------------------------------
(* Courses of several owners: both users log in, bodies name an owner or
   none, and the profile is read in between *)

\* A valid body that names the second user as the owner
OwnedBody == Spread(ValidBody, [userId |-> Str("2")])

OwnerBodies == {ValidBody, OwnedBody}
OwnerIds == {"1", "2"}

NextOwners ==
    \/ \E l \in ProfileLogins : Login(l[1], l[2])
    \/ \E h \in SessionHeaders, b \in OwnerBodies :
          CreatedBelow(MaxCreated) /\ CreateCourse(h, b, 0, 0)
    \/ \E h \in SessionHeaders, id \in OwnerIds, b \in OwnerBodies :
          UpdateCourse(h, id, b)
    \/ \E h \in SessionHeaders, id \in OwnerIds : DeleteCourse(h, id)
    \/ \E h \in SessionHeaders : GetProfile(h)

SpecOwners == Init /\ [][NextOwners]_vars

----------------------------------------------------------------------------
(* The course list of the frontend, opened on a collection that earlier
   creates, updates and deletes have left on the server *)

\* how many categories are selected at once
MaxSelected == 2

\* A course created d ticks after the start of the process, with a tick
\* between the clock readings of its creation when `late`, and updated u
\* ticks after the start
ListedCourse(d, late, u, title, description, category, level, duration, published) ==
    [id |-> Str(ToString(StartTime + d)), title |-> Str(title),
     description |-> Str(description), category |-> Str(category),
     level |-> Str(level), duration |-> Int1(duration),
     published |-> Bool(published),
     createdAt |-> DateAt(StartTime + d + (IF late THEN 1 ELSE 0)),
     updatedAt |-> DateAt(StartTime + u)]

\* Four courses with ties on every sort field: the titles and the categories
\* of the first two differ in case only
ListedCourses ==
    << ListedCourse(0, FALSE, 3, "sql Basics", "Queries", "Data",
                    "beginner", 5, TRUE),
       ListedCourse(1, TRUE, 2, "SQL basics", "Joins", "data",
                    "intermediate", 8, TRUE),
       ListedCourse(2, FALSE, 2, "Art", "Intro to SQL", "Design",
                    "beginner", 5, FALSE),
       ListedCourse(3, FALSE, 3, "Zen", "Calm", "Design",
                    "advanced", 8, TRUE) >>

\* The collections the list is opened on: all four courses, or the last three
Catalogs == {ListedCourses, Tail(ListedCourses)}

InitList ==
    /\ users = SeedUsers
    /\ courses \in Catalogs
    /\ now = StartTime + 3
    /\ sessions = {}
    /\ req = NoRequest
    /\ res = [status |-> 0]
    /\ courseList = NewCourseList
    /\ browser = NewBrowser

SearchQueries == {Str(""), Str("sql"), Str("a")}
LevelChoices == {Str("")} \cup {Str(l) : l \in Levels}

NextList ==
    \/ FetchCourses
    \/ \E q \in SearchQueries : SetSearchQuery(q)
    \/ \E c \in categories :
          /\ \/ Len(courseList.selectedCategories) < MaxSelected
             \/ \E i \in 1..Len(courseList.selectedCategories) :
                   courseList.selectedCategories[i] = c
          /\ ToggleCategory(c)
    \/ \E l \in LevelChoices : SetSelectedLevel(l)
    \/ TogglePublished
    \/ \E f \in SortFields : SetSortField(f)
    \/ \E d \in {"asc", "desc"} : SetSortDirection(d)
    \/ ClearFilters

SpecList == InitList /\ [][NextList]_vars

\* The list in the hands of a user who goes on clicking the 'Published Only'
\* button, the one control of the published criterion
SpecListFair == SpecList /\ WF_vars(TogglePublished)


----------------------------------------------------------------------------
(* The frontend in one browser, next to another client of the API. The     *)
(* browser starts with what an earlier visit left in localStorage.         *)

\* The token of a login of admin that has expired since
StaleToken == generateToken([id |-> Str("1"), username |-> Str("admin")], 0)

\* localStorage at the start: nothing, a token without a user, a token with
\* a user that does not parse, a token with a user
StoredAtStart ==
    { EmptyStorage,
      [authToken |-> StaleToken, user |-> Null],
      [authToken |-> StaleToken, user |-> Text("{")],
      [authToken |-> StaleToken,
       user |-> JsonStringify(PublicUser(SeedUsers[1]))] }

InitBrowser ==
    /\ users = SeedUsers
    /\ courses = SeedCourses
    /\ now = StartTime
    /\ sessions = {}
    /\ req = NoRequest
    /\ res = [status |-> 0]
    /\ courseList = NewCourseList
    /\ browser \in {[NewBrowser EXCEPT !.localStorage = stored] :
                        stored \in StoredAtStart}

Pages == {"/", "/login", "/dashboard", "/profile"}

\* What is typed into the form: a whole valid course, a new title, blanks
TypedFields == {ValidBody, PartialBody, [title |-> Str("  ")]}

\* The rows of the list the user picks from: the first MaxCreated ones
Picked == {i \in 1..Len(courseList.courses) : i <= MaxCreated}

\* The courses the form of the list is opened on: a new one, or a picked one
Editable == {Null} \cup {courseList.courses[i] : i \in Picked}

\* fewer than n courses less than the seeded ones
DeletedBelow(n) == Len(courses) > Len(SeedCourses) - n

NextBrowser ==
    \/ \E path \in Pages : LoadPage(path)
    \/ AuthProviderMount
    \/ \E l \in {<<Str("admin"), Str("password123")>>,
                 <<Str("admin"), Str("wrong")>>} : AuthLogin(l[1], l[2])
    \/ \E thrown \in BOOLEAN : AuthLogout(thrown)
    \/ LogoutQuickAction
    \/ DashboardShown /\ FetchCourses
    \/ \E i \in Picked :
          /\ DeletedBelow(MaxCreated)
          /\ HandleDeleteConfirm(courseList.courses[i].id)

SpecBrowser == InitBrowser /\ [][NextBrowser]_vars

----------------------------------------------------------------------------
(* The course list of the dashboard in the hands of a user who logs in,    *)
(* next to another client of the API that holds the same token             *)

InitEditor ==
    /\ users = SeedUsers
    /\ courses = SeedCourses
    /\ now = StartTime
    /\ sessions = {}
    /\ req = NoRequest
    /\ res = [status |-> 0]
    /\ courseList = NewCourseList
    /\ browser = [NewBrowser EXCEPT !.isLoading = FALSE,
                                    !.requested = "/login",
                                    !.pathname = "/login"]

NextEditor ==
    \/ AuthLogin(Str("admin"), Str("password123"))
    \/ DashboardShown /\ FetchCourses
    \/ \E course \in Editable, typed \in TypedFields :
          /\ course = Null => CreatedBelow(MaxCreated)
          /\ HandleSubmit(course, FormData(course, typed))
    \/ \E i \in Picked :
          /\ DeletedBelow(MaxCreated)
          /\ HandleDeleteConfirm(courseList.courses[i].id)
    \/ \E h \in SessionHeaders :
          CreatedBelow(MaxCreated) /\ CreateCourse(h, ValidBody, 0, 0)

SpecEditor == InitEditor /\ [][NextEditor]_vars

----------------------------------------------------------------------------
(* What the claims speak of *)

ProtectedRoutes ==
    {"POST /auth/logout", "POST /courses", "PUT /courses/:id",
     "DELETE /courses/:id", "GET /profile", "PUT /profile"}

MutatingRoutes ==
    {"POST /courses", "PUT /courses/:id", "DELETE /courses/:id", "PUT /profile"}

\* The token verifies at time t: the server signed it and it has not expired
VerifiesAt(token, t) ==
    /\ token.kind = "jwt"
    /\ token.key = JWT_SECRET
    /\ ClockTimestamp(t) < token.payload.exp

\* Some piece of the header is a token that verifies at time t
CarriesVerifying(authHeader, t) ==
    \E i \in 1..Len(authHeader) : VerifiesAt(authHeader[i], t)

\* The header is 'Bearer <token>' with a token that verifies at time t
BearerVerifying(authHeader, t) ==
    /\ Len(authHeader) = 2
    /\ authHeader[1] = Text("Bearer")
    /\ VerifiesAt(authHeader[2], t)

\* The guard let the request through to its handler
HandlerRan == req.user # Undefined

\* username and email of every user, in the order of the array
NamesAndEmails(us) == [i \in 1..Len(us) |-> <<us[i].username, us[i].email>>]

----------------------------------------------------------------------------
(* C1: the courses, and the username and email of every user, change only in
   a step that handles a request carrying a token that verifies at the time
   of the request. *)
C1_MutationNeedsToken ==
    [][ (courses' # courses \/ NamesAndEmails(users') # NamesAndEmails(users))
          => CarriesVerifying(req'.authorization, req'.at) ]_vars

\* A mutating request was sent with a token the server had issued and that
\* has expired, was refused, and found the collections as they were seeded
C1_ExpiredTokenRefused ==
    /\ req.route \in MutatingRoutes
    /\ \E s \in sessions :
          /\ req.authorization = << Text("Bearer"), s.token >>
          /\ ~VerifiesAt(s.token, req.at)
    /\ res.status = 403
    /\ courses = SeedCourses
    /\ NamesAndEmails(users) = NamesAndEmails(SeedUsers)

(* C2: on a protected route a missing header gives 401, a header without a
   verifying token gives 403, and the handler runs only for 'Bearer <token>'
   with a verifying token, with the decoded id and username attached. *)
C2_GuardStatuses ==
    req.route \in ProtectedRoutes =>
        /\ req.authorization = NoHeader => res.status = 401
        /\ (req.authorization # NoHeader
              /\ ~BearerVerifying(req.authorization, req.at)) => res.status = 403
        /\ HandlerRan =>
              /\ BearerVerifying(req.authorization, req.at)
              /\ req.user.id = req.authorization[2].payload.id
              /\ req.user.username = req.authorization[2].payload.username

\* The request of a session: a protected route called with 'Bearer <its token>'
SessionRequest(s) ==
    /\ req.route \in ProtectedRoutes
    /\ req.authorization = << Text("Bearer"), s.token >>

Accepted(s) ==
    /\ HandlerRan
    /\ req.user.id = s.user.id
    /\ req.user.username = s.user.username

Rejected == ~HandlerRan /\ res.status = 403

(* C3 as claimed: a token is accepted, and decodes to the user who logged in,
   at every time strictly before 24 hours after the login, and is rejected at
   every time from then on. *)
C3_AcceptedUntil24hAfterLogin ==
    \A s \in sessions :
        SessionRequest(s) =>
            IF req.at < s.at + ExpiresIn * TicksPerSecond
            THEN Accepted(s) ELSE Rejected

(* C3 as amended: a token is accepted, and decodes to the user who logged in,
   while the clock in whole seconds is below the whole second of the login
   plus 24 hours, and is rejected from that second on. *)
C3_AcceptedUntilExpirySecond ==
    \A s \in sessions :
        SessionRequest(s) =>
            IF ClockTimestamp(req.at) < ClockTimestamp(s.at) + ExpiresIn
            THEN Accepted(s) ELSE Rejected

\* A token was presented in the second it expires in and was rejected
C3_RejectedAtExpiry ==
    \E s \in sessions :
        /\ SessionRequest(s)
        /\ ClockTimestamp(req.at) = ClockTimestamp(s.at) + ExpiresIn
        /\ Rejected


----------------------------------------------------------------------------
(* C4: no two user records have the same username. *)
C4_UsernamesUnique ==
    \A i, j \in 1..Len(users) :
        i # j => users[i].username # users[j].username

\* The first user has taken a new name, and the second user, asking for that
\* name, was refused
C4_ConflictRefused ==
    /\ req.route = "PUT /profile"
    /\ req.user # Undefined
    /\ req.user.id = Str("2")
    /\ req.body.username = users[1].username
    /\ users[1].username # SeedUsers[1].username
    /\ res.status = 409

----------------------------------------------------------------------------
(* The validation rules of the specification, section 4.4 *)

CourseFields ==
    {"title", "description", "category", "level", "duration", "published"}

RuleHolds(k, v) ==
    CASE k \in {"title", "description", "category"} ->
            v.type = "string" /\ Len(Trim(v.str)) > 0
      [] k = "level" -> v.type = "string" /\ v.str \in Levels
      [] k = "duration" ->
            v.type = "number" /\ v.num > 0 /\ v.num % v.den = 0
      [] k = "published" -> v.type = "boolean"

ViolatedFields(body) == {k \in CourseFields : ~RuleHolds(k, Get(body, k))}

\* The name a message gives to a field
Label(k) ==
    CASE k = "title" -> "Title"
      [] k = "description" -> "Description"
      [] k = "category" -> "Category"
      [] k = "level" -> "Level"
      [] k = "duration" -> "Duration"
      [] k = "published" -> "Published"

\* sub occurs in s
Contains(s, sub) ==
    \E i \in 1..(Len(s) - Len(sub) + 1) : SubSeq(s, i, i + Len(sub) - 1) = sub

\* The step handles a request to the route (and is not a step of the clock
\* or of a client that leaves the last request in place)
Handled(route) ==
    /\ req'.route = route
    /\ <<req, res, courses, users>>' # <<req, res, courses, users>>

\* Where the course with the id is in the array, 0 when nowhere
IndexOfCourse(id) == FindIndex([n \in 1..Len(courses) |-> courses[n].id = id])

----------------------------------------------------------------------------
(* C5: no two courses have the same id, and the id a create assigns is the id
   of no other course of the collection. *)
C5_CourseIdsUnique ==
    /\ \A i, j \in 1..Len(courses) : i # j => courses[i].id # courses[j].id
    /\ (req.route = "POST /courses" /\ res.status = 201) =>
          Cardinality({i \in 1..Len(courses) : courses[i].id = res.data.id}) = 1

(* C6: a successful update leaves the id and createdAt of the course as they
   were and sets its updatedAt to the time of the update, whatever the body
   holds. *)
C6_UpdateKeepsIdAndCreatedAt ==
    [][ (Handled("PUT /courses/:id") /\ res'.status = 200) =>
          LET i == IndexOfCourse(req'.id)
          IN  /\ courses'[i].id = courses[i].id
              /\ courses'[i].createdAt = courses[i].createdAt
              /\ courses'[i].updatedAt = DateAt(req'.at) ]_vars

(* C7: an authenticated update of an existing course with a body that holds
   some of the course fields, each of them valid, succeeds: the fields of the
   body are stored and the others keep their values. *)
C7_PartialUpdateSucceeds ==
    [][ ( /\ Handled("PUT /courses/:id")
          /\ req'.user # Undefined
          /\ DOMAIN req'.body # {}
          /\ DOMAIN req'.body \subseteq CourseFields
          /\ \A k \in DOMAIN req'.body : RuleHolds(k, req'.body[k])
          /\ IndexOfCourse(req'.id) # 0 )
        => LET i == IndexOfCourse(req'.id)
           IN  /\ res'.status = 200
               /\ \A k \in CourseFields :
                     courses'[i][k] = IF k \in DOMAIN req'.body
                                      THEN req'.body[k] ELSE courses[i][k] ]_vars

(* C8: create and update accept a body only if every rule holds for it; a body
   that breaks a rule is answered 400 and the courses stay as they were. *)
C8_OnlyValidBodiesAccepted ==
    [][ ( /\ Handled("POST /courses") \/ Handled("PUT /courses/:id")
          /\ req'.user # Undefined
          /\ ViolatedFields(req'.body) # {} )
        => (res'.status = 400 /\ courses' = courses) ]_vars

(* C9: a body that breaks several rules, or lacks a required field, is
   answered by one 400 whose error names every field whose rule is broken. *)
C9_EveryViolationReported ==
    ( /\ req.route \in {"POST /courses", "PUT /courses/:id"}
      /\ req.user # Undefined
      /\ \/ Cardinality(ViolatedFields(req.body)) >= 2
         \/ ~(CourseFields \subseteq DOMAIN req.body) )
    => /\ res.status = 400
       /\ \A k \in ViolatedFields(req.body) : Contains(res.error, Label(k))

(* C10: an authenticated delete, or update with a body the validator passes,
   of an id that no course has is answered 404 'Course not found' and leaves
   the courses as they were. *)
C10_UnknownIdNotFound ==
    [][ ( /\ \/ Handled("DELETE /courses/:id")
             \/ Handled("PUT /courses/:id") /\ validateCourse(req'.body).next
          /\ req'.user # Undefined
          /\ IndexOfCourse(req'.id) = 0 )
        => /\ res' = Failure(404, "Course not found")
           /\ courses' = courses ]_vars

\* The scenario of the specification: PUT /courses/999 with a valid token and
\* a valid body, answered 404, with the seeded courses in place
C10_Put999NotFound ==
    /\ req.route = "PUT /courses/:id"
    /\ req.id = Str("999")
    /\ req.user # Undefined
    /\ req.body = ValidBody
    /\ res = Failure(404, "Course not found")
    /\ courses = SeedCourses

----------------------------------------------------------------------------
\* The fields addCourse generates
GeneratedFields == {"id", "createdAt", "updatedAt"}

(* C11: right after a create, whatever the collection held before, getById of
   the returned id gives the record the create returned, and that record is
   the payload with exactly id, createdAt and updatedAt added, createdAt and
   updatedAt being equal. *)
C11_CreateThenGetById ==
    (req.route = "POST /courses" /\ res.status = 201) =>
        LET created == res.data
        IN  /\ getCourseById(created.id) = created
            /\ DOMAIN created = DOMAIN req.body \cup GeneratedFields
            /\ \A k \in DOMAIN req.body \ GeneratedFields :
                  created[k] = req.body[k]
            /\ created.createdAt = created.updatedAt

----------------------------------------------------------------------------
\* The body of a profile update passes the checks of its two fields
ProfileBodyPasses(body) ==
    /\ ~Falsy(body.username)
    /\ ~Falsy(body.email)
    /\ body.email.type = "string"
    /\ EmailRegexTest(body.email.str)

(* C12: an authenticated profile update with both fields well formed that asks
   for a username held by a different user is answered 409 'Username already
   taken' and leaves every user record as it was; one that asks for the
   requester's own current username succeeds. *)
C12_ConflictLeavesUsers ==
    [][ ( /\ Handled("PUT /profile")
          /\ req'.user # Undefined
          /\ ProfileBodyPasses(req'.body) )
        => LET name == req'.body.username
               id == req'.user.id
           IN  IF \E i \in 1..Len(users) :
                     users[i].username = name /\ users[i].id # id
               THEN res' = Failure(409, "Username already taken") /\ users' = users
               ELSE (\E i \in 1..Len(users) :
                        users[i].id = id /\ users[i].username = name)
                    => res'.status = 200 ]_vars

\* The first user asked for the name the second user holds and was refused,
\* and both still carry their seeded names
C12_AdminRefusedSecondName ==
    /\ req.route = "PUT /profile"
    /\ req.user # Undefined
    /\ req.user.id = Str("1")
    /\ req.body.username = users[2].username
    /\ res = Failure(409, "Username already taken")
    /\ NamesAndEmails(users) = NamesAndEmails(SeedUsers)

----------------------------------------------------------------------------
\* The stored record with the id, Undefined when no user has it
UserById(id) ==
    LET i == FindIndex([n \in 1..Len(users) |-> users[n].id = id])
    IN  IF i = 0 THEN Undefined ELSE users[i]

ProfileFields == {"id", "username", "email", "lastLogin"}

(* C13: a profile read answers with the id, username, email and lastLogin that
   the stored record of the authenticated user holds at that time, so that a
   read after a profile update, with the same token, shows the new username
   and email. *)
C13_ProfileShowsStoredRecord ==
    (req.route = "GET /profile" /\ res.status = 200) =>
        LET stored == UserById(req.user.id)
        IN  /\ stored # Undefined
            /\ \A k \in ProfileFields :
                  Get(res.data, k) = PublicUser(stored)[k]

----------------------------------------------------------------------------
\* How many courses of the sequence have the owner
RECURSIVE CountOwned(_, _)
CountOwned(cs, owner) ==
    IF Len(cs) = 0 THEN 0
    ELSE (IF Get(Head(cs), "userId") = owner THEN 1 ELSE 0)
         + CountOwned(Tail(cs), owner)

(* C14: at every profile read, coursesCreated is the number of courses in the
   collection at that time whose userId is the id of the authenticated user,
   whatever creates, updates and deletes came before. *)
C14_CoursesCreatedCounted ==
    (req.route = "GET /profile" /\ res.status = 200) =>
        res.data.coursesCreated = Int1(CountOwned(courses, req.user.id))

\* The second user read the profile after a course was created for them and a
\* seeded course was handed to them: two courses, of seven
C14_SecondUserOwnsTwo ==
    /\ req.route = "GET /profile"
    /\ res.status = 200
    /\ req.user.id = Str("2")
    /\ res.data.coursesCreated = Int1(2)
    /\ Len(courses) = Len(SeedCourses) + 1

----------------------------------------------------------------------------
\* The users that hold the name
Holders(name) == {i \in 1..Len(users) : users[i].username = name}

(* C15: a login that lacks the username or the password is answered 400, one
   that names no user or gives a password other than the stored one is
   answered 401, and neither issues a token or changes a user record; a
   successful login changes the lastLogin of the user it matched and nothing
   else of the users. *)
C15_LoginOutcomes ==
    [][ Handled("POST /auth/login") =>
          LET name == req'.body.username
              password == req'.body.password
              refused == /\ "data" \notin DOMAIN res'
                         /\ sessions' = sessions
                         /\ users' = users
          IN  IF Falsy(name) \/ Falsy(password)
              THEN res'.status = 400 /\ refused
              ELSE IF \A i \in Holders(name) : users[i].password # password
              THEN res'.status = 401 /\ refused
              ELSE /\ res'.status = 200
                   /\ res'.data.token.kind = "jwt"
                   /\ Len(users') = Len(users)
                   /\ \A i \in 1..Len(users) :
                         IF i \in Holders(name)
                         THEN users'[i] = [users[i] EXCEPT
                                             !.lastLogin = users'[i].lastLogin]
                         ELSE users'[i] = users[i] ]_vars

\* After the second user logged in, a login as the first user with the second
\* user's password was answered 401; the first user has never logged in and
\* the client still holds the second user's token
C15_WrongPasswordRefused ==
    /\ req.route = "POST /auth/login"
    /\ req.body = [username |-> Str("admin"), password |-> Str("user123")]
    /\ res = Failure(401, "Invalid credentials")
    /\ users[1].lastLogin = Null
    /\ users[2].lastLogin # Null
    /\ \E s \in sessions : s.user.id = Str("2")

----------------------------------------------------------------------------
\* A token a logout was answered for, presented on a protected route before
\* its expiry time, is accepted as the user who logged in
AcceptedAfterLogout ==
    \A s \in sessions :
        ( /\ s.loggedOut
          /\ SessionRequest(s)
          /\ ClockTimestamp(req.at) < s.token.payload.exp )
        => Accepted(s)

(* C16: a logout request leaves the users and the courses as they were, and a
   token presented on a protected route after its holder logged out is still
   accepted, until its expiry time. *)
C16_LogoutRevokesNothing ==
    [][ /\ Handled("POST /auth/logout") => (users' = users /\ courses' = courses)
        /\ AcceptedAfterLogout' ]_vars

\* After a logout was answered for its token, the holder deleted the first
\* course with it
C16_DeletedAfterLogout ==
    \E s \in sessions :
        /\ s.loggedOut
        /\ req.route = "DELETE /courses/:id"
        /\ req.authorization = << Text("Bearer"), s.token >>
        /\ res.status = 200
        /\ getCourseById(Str("1")) = Undefined

----------------------------------------------------------------------------
\* The step answers 200 to a profile update of the user with the id
ProfileUpdatedBy(id) ==
    /\ req'.route = "PUT /profile"
    /\ res'.status = 200
    /\ req'.user # Undefined
    /\ req'.user.id = id

\* The step answers 200 to a login of the user with the id
LoggedInAs(id) ==
    /\ req'.route = "POST /auth/login"
    /\ res'.status = 200
    /\ res'.data.user.id = id

(* C17: the users are the seeded ones, in every state; no step changes the id
   or the password of a user; the username and the email of a user change
   only in that user's successful profile update, and the lastLogin only in
   that user's successful login. *)
C17_UsersFrame ==
    [][ /\ Len(users') = Len(SeedUsers)
        /\ \A i \in 1..Len(SeedUsers) :
              /\ Get(users'[i], "id") = SeedUsers[i].id
              /\ Get(users'[i], "password") = SeedUsers[i].password
              /\ (users'[i].username # users[i].username
                    \/ users'[i].email # users[i].email)
                  => ProfileUpdatedBy(users[i].id)
              /\ users'[i].lastLogin # users[i].lastLogin
                  => LoggedInAs(users[i].id) ]_vars

\* The second user has logged in and taken a new name and email, and the
\* first user, who has not logged in, is as seeded
C17_SecondUserRenamed ==
    /\ users[1] = SeedUsers[1]
    /\ users[2].id = SeedUsers[2].id
    /\ users[2].password = SeedUsers[2].password
    /\ users[2].username = Str("neo")
    /\ users[2].email = Str("neo@example.com")
    /\ users[2].lastLogin # Null

----------------------------------------------------------------------------
\* The elements of a sequence
SetOf(seq) == {seq[i] : i \in 1..Len(seq)}

\* The place of each letter in the alphabet, 0 for what is no letter
LetterOf ==
    [c \in Characters |-> IndexIn(c, UpperCase) + IndexIn(c, LowerCase)]

\* Two characters are the same letter, in whatever case
SameLetter(c, d) == c = d \/ (LetterOf[c] # 0 /\ LetterOf[c] = LetterOf[d])

\* sub occurs in s when the case of the letters is disregarded
OccursIgnoringCase(s, sub) ==
    \E i \in 1..(Len(s) - Len(sub) + 1) :
        \A k \in 1..Len(sub) :
            SameLetter(SubSeq(sub, k, k), SubSeq(s, i + k - 1, i + k - 1))

\* The course satisfies every criterion of the list that is active
Satisfies(course) ==
    /\ \/ OccursIgnoringCase(course.title.str, courseList.searchQuery.str)
       \/ OccursIgnoringCase(course.description.str, courseList.searchQuery.str)
    /\ \/ SetOf(courseList.selectedCategories) = {}
       \/ course.category \in SetOf(courseList.selectedCategories)
    /\ \/ courseList.selectedLevel = Str("")
       \/ course.level = courseList.selectedLevel
    /\ \/ courseList.publishedFilter = Null
       \/ course.published = courseList.publishedFilter

Criteria == {"text", "category", "level", "published"}

\* The filter of the component with one criterion of the list and no other
FilterBy(criterion, cs) ==
    filteredCourses(
        cs,
        IF criterion = "text" THEN courseList.searchQuery ELSE Str(""),
        IF criterion = "category" THEN courseList.selectedCategories ELSE << >>,
        IF criterion = "level" THEN courseList.selectedLevel ELSE Str(""),
        IF criterion = "published" THEN courseList.publishedFilter ELSE Null)

\* The orders the four criteria can be applied in
Orders ==
    {o \in [1..4 -> Criteria] : \A i, j \in 1..4 : i # j => o[i] # o[j]}

OneAtATime(o) ==
    FilterBy(o[4], FilterBy(o[3], FilterBy(o[2],
        FilterBy(o[1], courseList.courses))))

(* C18: the filtered view holds exactly the fetched courses that satisfy every
   active criterion (text without regard to case in the title or the
   description, category in the selected set, level equal, published equal),
   and the four criteria applied one at a time, in any order, give that same
   set. *)
C18_FilterIsConjunction ==
    /\ SetOf(ViewFiltered) = {c \in SetOf(courseList.courses) : Satisfies(c)}
    /\ \A o \in Orders : SetOf(OneAtATime(o)) = SetOf(ViewFiltered)

\* All four criteria are active on the four courses and leave one of them
C18_FourCriteriaLeaveOne ==
    /\ courseList.courses = ListedCourses
    /\ courseList.searchQuery = Str("sql")
    /\ Len(courseList.selectedCategories) = 2
    /\ courseList.selectedLevel = Str("beginner")
    /\ courseList.publishedFilter = Bool(TRUE)
    /\ ViewFiltered = << ListedCourses[1] >>

----------------------------------------------------------------------------
\* How often x is in the sequence
Occurrences(seq, x) == Cardinality({i \in 1..Len(seq) : seq[i] = x})

IsPermutation(a, b) ==
    /\ Len(a) = Len(b)
    /\ \A x \in SetOf(a) \cup SetOf(b) : Occurrences(a, x) = Occurrences(b, x)

(* C19: whatever the sort field and the direction of the list, sorting the
   sorted view again by them gives the identical sequence, ties in their
   order included, and the sorted view is a permutation of the filtered
   courses. *)
C19_SortIdempotent ==
    /\ sortedCourses(ViewSorted, courseList.sortField,
                     courseList.sortDirection) = ViewSorted
    /\ IsPermutation(ViewSorted, ViewFiltered)

\* The four courses sorted by duration, longest first: the two of eight hours
\* and the two of five keep the order they were fetched in
C19_TiesKeepOrder ==
    /\ courseList.sortField = "duration"
    /\ courseList.sortDirection = "desc"
    /\ ViewFiltered = ListedCourses
    /\ ViewSorted = << ListedCourses[2], ListedCourses[4],
                       ListedCourses[1], ListedCourses[3] >>

----------------------------------------------------------------------------
\* The levels in the order of their strings
AlphabeticalLevels == << "advanced", "beginner", "intermediate" >>

PlaceOfLevel(level) == CHOOSE k \in 1..3 : AlphabeticalLevels[k] = level

(* C20: sorted by level, the courses come in the order of the level strings:
   advanced, beginner, intermediate when ascending, the reverse when
   descending. *)
C20_LevelSortedAsStrings ==
    courseList.sortField = "level" =>
        \A i, j \in 1..Len(ViewSorted) :
            i < j =>
                LET a == PlaceOfLevel(ViewSorted[i].level.str)
                    b == PlaceOfLevel(ViewSorted[j].level.str)
                IN  IF courseList.sortDirection = "asc" THEN a <= b ELSE a >= b

\* The four courses sorted by level, ascending: the advanced one, the two
\* beginner ones, the intermediate one
C20_AdvancedFirst ==
    /\ courseList.sortField = "level"
    /\ courseList.sortDirection = "asc"
    /\ ViewFiltered = ListedCourses
    /\ [i \in 1..4 |-> ViewSorted[i].level.str]
         = << "advanced", "beginner", "beginner", "intermediate" >>

\* C21: sorted by level in the ascending direction, the list shows the
\* courses by difficulty: the beginner ones, then the intermediate ones, then
\* the advanced ones
C21_LevelSortedByDifficulty ==
    (courseList.sortField = "level" /\ courseList.sortDirection = "asc") =>
        \A i, j \in 1..Len(ViewSorted) :
            i < j => LevelRank(ViewSorted[i].level.str)
                        <= LevelRank(ViewSorted[j].level.str)

\* C22: the published criterion is tri-state and each of its values can be
\* selected through the filter controls: a user who goes on using the control
\* of the criterion gets to the value false (only unpublished courses shown)
C22_UnpublishedOnlyReachable == <>(courseList.publishedFilter = Bool(FALSE))

----------------------------------------------------------------------------
\* A step in which the form of the list was submitted
SubmittedFromList ==
    \E course \in Editable, typed \in TypedFields :
        HandleSubmit(course, FormData(course, typed))

\* A step in which a deletion was confirmed in the list
DeletedFromList ==
    \E i \in 1..Len(courseList.courses) :
        HandleDeleteConfirm(courseList.courses[i].id)

\* C23: after every create, update or delete issued from the course list
\* that the server answered with a success, the list holds the collection of
\* the server as fetched after the mutation
C23_ListRefetchedAfterMutation ==
    [][(SubmittedFromList \/ DeletedFromList) /\ res'.success
          => courseList'.courses = courses']_vars

----------------------------------------------------------------------------
\* The browser holds nothing of a session
LoggedOutLocally ==
    /\ browser.localStorage = EmptyStorage
    /\ browser.token = Null
    /\ browser.user = Null

\* A step in which the frontend sent a request that carries its token
RequestedWithToken ==
    \/ DeletedFromList
    \/ AuthLogout(FALSE)

\* C24: when a request of the frontend is refused because its token is
\* invalid or expired (403), the client logs the user out: localStorage, the
\* token of the ApiClient and the user of the context are cleared
C24_RejectedTokenLogsOut ==
    [][RequestedWithToken /\ res'.status = 403 => LoggedOutLocally']_vars

----------------------------------------------------------------------------
\* localStorage holds a token and a user that parses
SessionStored ==
    /\ browser.localStorage.authToken # Null
    /\ browser.localStorage.user # Null
    /\ JsonParse(browser.localStorage.user).ok

\* C25: a protected page loaded while localStorage holds a token and a user
\* is shown without a redirect to /login, and a protected page is left for
\* /login only once the context has finished loading and holds no user
C25_ProtectedPageKeptWithSession ==
    browser.requested \in ProtectedPages =>
        /\ SessionStored => browser.pathname = browser.requested
        /\ browser.pathname = "/login" =>
              ~browser.isLoading /\ browser.user = Null

----------------------------------------------------------------------------
\* C26: when AuthContext.logout completes, whether the server answered with
\* a success, answered with a failure, or the request threw, localStorage
\* holds neither authToken nor user, the ApiClient holds no token and the
\* user of the context is null
C26_LogoutAlwaysClears ==
    [][(\E thrown \in BOOLEAN : AuthLogout(thrown)) => LoggedOutLocally']_vars

\* A logout the server refused with 403 has completed, and the browser
\* holds nothing of the session
C26_ClearedAfterRefusedLogout ==
    /\ req.route = "POST /auth/logout"
    /\ res.status = 403
    /\ ~browser.isLoading
    /\ LoggedOutLocally

----------------------------------------------------------------------------
\* C27: POST /courses and PUT /courses/:id check the token, then the body,
\* then the id: without a valid token the answer is 401 or 403 whatever the
\* body; with one, a body the validation refuses is answered 400 whatever
\* the id; only then an unknown id is answered 404; and a refused request
\* leaves the courses as they were
C27_ChecksInOrder ==
    [][ (Handled("POST /courses") \/ Handled("PUT /courses/:id")) =>
          LET tokenOk == BearerVerifying(req'.authorization, req'.at)
              bodyOk == validateCourse(req'.body).next
          IN  /\ ~tokenOk =>
                    /\ res'.status \in {401, 403}
                    /\ req'.user = Undefined
                    /\ courses' = courses
              /\ tokenOk /\ ~bodyOk =>
                    /\ res'.status = 400
                    /\ courses' = courses
              /\ ( /\ tokenOk /\ bodyOk
                   /\ req'.route = "PUT /courses/:id"
                   /\ IndexOfCourse(req'.id) = 0 ) =>
                    /\ res'.status = 404
                    /\ courses' = courses ]_vars

\* An authenticated PUT /courses/999 with a body that breaks several rules
\* was answered 400, with the seeded courses in place
C27_InvalidBodyBeforeUnknownId ==
    /\ req.route = "PUT /courses/:id"
    /\ req.id = Str("999")
    /\ req.user # Undefined
    /\ req.body = InvalidBody
    /\ res.status = 400
    /\ courses = SeedCourses

----------------------------------------------------------------------------
\* C28: a course created through POST /courses is stored with the id of the
\* authenticated user who sent the request as its userId
C28_CreatedCourseOwnedByCaller ==
    [][ (Handled("POST /courses") /\ res'.status = 201) =>
          Get(courses'[Len(courses')], "userId") = req'.user.id ]_vars

----------------------------------------------------------------------------
\* C29: once the AuthProvider has finished initialising, the ApiClient holds
\* a token exactly when the user of the context is not null, whatever
\* localStorage held at the start
C29_TokenIffUser ==
    ~browser.isLoading => (browser.token # Null <=> browser.user # Null)

----------------------------------------------------------------------------
\* C30: once the Logout quick action of the dashboard is confirmed, the
\* stored token and user are cleared, so that the page loading next finds
\* nobody logged in
C30_QuickActionEndsSession ==
    [][LogoutQuickAction => browser'.localStorage = EmptyStorage]_vars

====
